---------------------------- MODULE Spec2Model ----------------------------
(***************************************************************************)
(* A model of src/twitter_handler.py (class TwitterThreadHandler).         *)
(*                                                                         *)
(* Python strings are modelled as sequences of one-character strings, so   *)
(* that the regular expressions, str.split, str.strip and slicing of the   *)
(* source are computed character by character.  The character classes     *)
(* \d, \w and \s are modelled over ASCII.  None is the value None below.   *)
(***************************************************************************)
EXTENDS Integers, Sequences, FiniteSets, TLC

VARIABLES
    call,       \* pure-function harness: the method called and its arguments
    ret,        \* pure-function harness: the value the method returned
    pc,         \* per invocation: position inside fetch_thread_content
    frame,      \* per invocation: the local variables of the invocation
    result,     \* per invocation: the triple returned to the caller
    fs,         \* the raw directory: file name -> content (or None if absent)
    requests,   \* the HTTP GETs issued so far (the URLs, in order)
    events,     \* per invocation: what it has done to the network and the file
    writes      \* the writes to the files so far: (invocation, path), in order

vars == <<call, ret, pc, frame, result, fs, requests, events, writes>>

(***************************************************************************)
(* Characters and strings                                                  *)
(***************************************************************************)

\* Python's None: a one-element sequence no string (a sequence of one-character
\* strings) can equal.
None == <<"<None>">>

Digits == {"0", "1", "2", "3", "4", "5", "6", "7", "8", "9"}

LowerLetters ==
    {"a", "b", "c", "d", "e", "f", "g", "h", "i", "j", "k", "l", "m",
     "n", "o", "p", "q", "r", "s", "t", "u", "v", "w", "x", "y", "z"}

UpperLetters ==
    {"A", "B", "C", "D", "E", "F", "G", "H", "I", "J", "K", "L", "M",
     "N", "O", "P", "Q", "R", "S", "T", "U", "V", "W", "X", "Y", "Z"}

\* \w
WordChars == LowerLetters \cup UpperLetters \cup Digits \cup {"_"}

\* \s, and what str.strip() removes
Whitespace == {" ", "\n", "\t", "\r"}

Min(S) == CHOOSE x \in S : \A y \in S : x <= y

Max(S) == CHOOSE x \in S : \A y \in S : x >= y

\* s[i-1:] starts with lit (i is 1-based)
StartsWithAt(s, i, lit) ==
    /\ i >= 1
    /\ i + Len(lit) - 1 <= Len(s)
    /\ \A k \in 1..Len(lit) : s[i + k - 1] = lit[k]

\* s[i-1:j] for 1-based inclusive i..j (empty when j < i)
Slice(s, i, j) == IF j < i THEN <<>> ELSE SubSeq(s, i, j)

RECURSIVE Concat(_)
Concat(ss) == IF ss = <<>> THEN <<>> ELSE Head(ss) \o Concat(Tail(ss))

(***************************************************************************)
(* URL Classifier: is_twitter_url, extract_tweet_id, extract_username      *)
(***************************************************************************)

L_http == <<"h", "t", "t", "p">>
L_s == <<"s">>
L_scheme_sep == <<":", "/", "/">>
L_www == <<"w", "w", "w", ".">>
L_twitter_com == <<"t", "w", "i", "t", "t", "e", "r", ".", "c", "o", "m">>
L_x_com == <<"x", ".", "c", "o", "m">>
L_slash == <<"/">>
L_status == <<"/", "s", "t", "a", "t", "u", "s", "/">>

\* the prefixes  https?://(www\.)?(twitter\.com|x\.com)/  can match
TwitterPrefixes ==
    { L_http \o s \o L_scheme_sep \o w \o h \o L_slash :
        s \in {<<>>, L_s}, w \in {<<>>, L_www}, h \in {L_twitter_com, L_x_com} }

\* /status/\d  at position j: the shortest text  /status/\d+  matches there
StatusDigitAt(s, j) ==
    /\ StartsWithAt(s, j, L_status)
    /\ j + Len(L_status) <= Len(s)
    /\ s[j + Len(L_status)] \in Digits

\* re.match(r'https?://(www\.)?(twitter\.com|x\.com)/.+/status/\d+', url):
\* anchored at the start only; .+ is one or more characters other than "\n"
MatchesTwitterPattern(url) ==
    \E pre \in TwitterPrefixes :
        /\ StartsWithAt(url, 1, pre)
        /\ \E j \in (Len(pre) + 2)..Len(url) :
              /\ StatusDigitAt(url, j)
              /\ \A k \in (Len(pre) + 1)..(j - 1) : url[k] # "\n"

is_twitter_url(url) ==
    IF url = None \/ url = <<>> THEN FALSE ELSE MatchesTwitterPattern(url)

\* the end of the longest run of characters of class cls starting at i
\* (i - 1 when s[i] is not in cls)
RunEnd(s, i, cls) ==
    Min({e \in (i - 1)..Len(s) :
            /\ \A k \in i..e : s[k] \in cls
            /\ (e = Len(s) \/ s[e + 1] \notin cls)})

\* re.search(r'/status/(\d+)', url): the leftmost match, \d+ greedy
extract_tweet_id(url) ==
    LET starts == {j \in 1..Len(url) : StatusDigitAt(url, j)}
    IN  IF starts = {} THEN None
        ELSE LET j == Min(starts)
                 d == j + Len(L_status)
             IN  Slice(url, d, RunEnd(url, d, Digits))

\* /[\w]+/status/ at position i: "/" is no word character, so the run of
\* word characters after the "/" must end exactly where /status/ begins
UsernameAt(url, i) ==
    /\ i <= Len(url)
    /\ url[i] = "/"
    /\ RunEnd(url, i + 1, WordChars) >= i + 1
    /\ StartsWithAt(url, RunEnd(url, i + 1, WordChars) + 1, L_status)

\* re.search(r'/([\w]+)/status/', url): the leftmost match
extract_username(url) ==
    LET starts == {i \in 1..Len(url) : UsernameAt(url, i)}
    IN  IF starts = {} THEN None
        ELSE LET i == Min(starts)
             IN  Slice(url, i + 1, RunEnd(url, i + 1, WordChars))

(***************************************************************************)
(* Title Inferrer: infer_title_from_content                                *)
(***************************************************************************)

L_blank_line == <<"\n", "\n">>
L_paren_thread == <<"(", "t", "h", "r", "e", "a", "d", ")">>
L_bracket_thread == <<"[", "t", "h", "r", "e", "a", "d", "]">>
L_ellipsis == <<".", ".", ".">>
L_thread_by == <<"T", "h", "r", "e", "a", "d", " ", "b", "y", " ", "@">>
L_None == <<"N", "o", "n", "e">>

AlphaLower ==
    <<"a", "b", "c", "d", "e", "f", "g", "h", "i", "j", "k", "l", "m",
      "n", "o", "p", "q", "r", "s", "t", "u", "v", "w", "x", "y", "z">>

AlphaUpper ==
    <<"A", "B", "C", "D", "E", "F", "G", "H", "I", "J", "K", "L", "M",
      "N", "O", "P", "Q", "R", "S", "T", "U", "V", "W", "X", "Y", "Z">>

\* case folding of re.IGNORECASE
Lower(c) ==
    IF c \in UpperLetters
    THEN AlphaLower[CHOOSE k \in 1..Len(AlphaUpper) : AlphaUpper[k] = c]
    ELSE c

\* what an f-string prints for a value: str(None) is "None"
Str(v) == IF v = None THEN L_None ELSE v

\* s.split(sep)[0]: the text before the first occurrence of sep
SplitFirst(s, sep) ==
    LET at == {i \in 1..Len(s) : StartsWithAt(s, i, sep)}
    IN  IF at = {} THEN s ELSE Slice(s, 1, Min(at) - 1)

\* s.strip()
Strip(s) ==
    LET keep == {i \in 1..Len(s) : s[i] \notin Whitespace}
    IN  IF keep = {} THEN <<>> ELSE Slice(s, Min(keep), Max(keep))

\* the end of the longest run of characters outside cls starting at i
RunEndNot(s, i, cls) ==
    Min({e \in (i - 1)..Len(s) :
            /\ \A k \in i..e : s[k] \notin cls
            /\ (e = Len(s) \/ s[e + 1] \in cls)})

\* the text  https?://  matches at i (0 when it does not match there)
UrlHead(s, i) ==
    IF StartsWithAt(s, i, L_http \o L_s \o L_scheme_sep)
    THEN Len(L_http) + Len(L_s) + Len(L_scheme_sep)
    ELSE IF StartsWithAt(s, i, L_http \o L_scheme_sep)
         THEN Len(L_http) + Len(L_scheme_sep)
         ELSE 0

\* https?://\S+ matches at i
UrlAt(s, i) ==
    /\ UrlHead(s, i) > 0
    /\ i + UrlHead(s, i) <= Len(s)
    /\ s[i + UrlHead(s, i)] \notin Whitespace

\* re.sub(r'https?://\S+', '', s), scanning from i: one pass, left to right,
\* over non-overlapping matches; \S+ is greedy
RECURSIVE SubUrls(_, _)
SubUrls(s, i) ==
    LET at == {j \in i..Len(s) : UrlAt(s, j)}
    IN  IF at = {} THEN Slice(s, i, Len(s))
        ELSE LET j == Min(at)
             IN  Slice(s, i, j - 1)
                    \o SubUrls(s, RunEndNot(s, j + UrlHead(s, j), Whitespace) + 1)

\* \(thread\)|\[thread\] matches at i, ignoring case
MarkerAt(s, i) ==
    \E m \in {L_paren_thread, L_bracket_thread} :
        /\ i + Len(m) - 1 <= Len(s)
        /\ \A k \in 1..Len(m) : Lower(s[i + k - 1]) = m[k]

\* re.sub(r'\(thread\)|\[thread\]', '', s, flags=re.IGNORECASE), scanning from
\* i: one pass, left to right, over non-overlapping matches
RECURSIVE SubMarkers(_, _)
SubMarkers(s, i) ==
    LET at == {j \in i..Len(s) : MarkerAt(s, j)}
    IN  IF at = {} THEN Slice(s, i, Len(s))
        ELSE LET j == Min(at)
             IN  Slice(s, i, j - 1) \o SubMarkers(s, j + Len(L_paren_thread))

\* lines 92-101: the first blank-line-separated segment, stripped, then the
\* URLs and then the markers removed
CleanFirstTweet(thread_content) ==
    LET first_tweet == IF thread_content = <<>> THEN <<>>
                       ELSE SplitFirst(thread_content, L_blank_line)
    IN  SubMarkers(SubUrls(Strip(first_tweet), 1), 1)

\* re.split(r'[.!?]\s+', s)[0]: the text before the first ., ! or ? that is
\* followed by whitespace (all of s when there is none)
FirstSentence(s) ==
    LET at == {i \in 1..(Len(s) - 1) :
                  s[i] \in {".", "!", "?"} /\ s[i + 1] \in Whitespace}
    IN  IF at = {} THEN s ELSE Slice(s, 1, Min(at) - 1)

MAX_TITLE == 100

CUT_TITLE == 97

MIN_TITLE == 20

\* first_tweet[:100] + "..."
CutTitleAt100(first_tweet) == Slice(first_tweet, 1, MAX_TITLE) \o L_ellipsis

\* first_tweet[:97] + "..."
CutTitle(first_tweet) == Slice(first_tweet, 1, CUT_TITLE) \o L_ellipsis

\* lines 103-113
ShortenTitle(first_tweet) ==
    IF Len(first_tweet) > MAX_TITLE
    THEN IF Len(FirstSentence(first_tweet)) <= MAX_TITLE
         THEN FirstSentence(first_tweet)
         ELSE CutTitle(first_tweet)
    ELSE first_tweet

\* f"Thread by @{username}"
GenericTitle(username) == L_thread_by \o Str(username)

\* the comparison of line 116 as <= 20
FinishTitleOffByOne(title, username) ==
    IF Len(Strip(title)) <= MIN_TITLE
    THEN Strip(GenericTitle(username))
    ELSE Strip(title)

\* lines 115-119
FinishTitle(title, username) ==
    IF Len(Strip(title)) < MIN_TITLE
    THEN Strip(GenericTitle(username))
    ELSE Strip(title)

infer_title_from_content(thread_content, username) ==
    FinishTitle(ShortenTitle(CleanFirstTweet(thread_content)), username)

(***************************************************************************)
(* Tweet date: lines 182-192.  Python integers are unbounded and a tweet id *)
(* has about 19 decimal digits, so an integer is a sequence of decimal     *)
(* digits, most significant first, without leading zeros (zero is <<0>>).  *)
(***************************************************************************)

DigitChars == <<"0", "1", "2", "3", "4", "5", "6", "7", "8", "9">>

DigitVal(c) == (CHOOSE k \in 1..Len(DigitChars) : DigitChars[k] = c) - 1

\* drop leading zeros
RECURSIVE Norm(_)
Norm(d) ==
    IF Len(d) <= 1 THEN (IF d = <<>> THEN <<0>> ELSE d)
    ELSE IF Head(d) = 0 THEN Norm(Tail(d)) ELSE d

\* int(s) for a string of decimal digits
int(s) == Norm([k \in 1..Len(s) |-> DigitVal(s[k])])

\* a small natural number as a digit sequence
RECURSIVE BigOf(_)
BigOf(n) == IF n < 10 THEN <<n>> ELSE BigOf(n \div 10) \o <<n % 10>>

\* a digit sequence known to be small, as a number
RECURSIVE SmallOf(_)
SmallOf(d) ==
    IF d = <<>> THEN 0 ELSE SmallOf(SubSeq(d, 1, Len(d) - 1)) * 10 + d[Len(d)]

\* long division of the digits d[i..] by the small number m, with the
\* remainder rem and the quotient digits q so far
RECURSIVE DivStep(_, _, _, _, _)
DivStep(d, i, m, rem, q) ==
    IF i > Len(d) THEN [quot |-> Norm(q), rem |-> rem]
    ELSE LET cur == rem * 10 + d[i]
         IN  DivStep(d, i + 1, m, cur % m, Append(q, cur \div m))

BigDivMod(d, m) == DivStep(d, 1, m, 0, <<>>)

\* a + b, digit by digit from the right with carry c
RECURSIVE AddStep(_, _, _)
AddStep(a, b, c) ==
    IF a = <<>> /\ b = <<>> THEN (IF c = 0 THEN <<>> ELSE <<c>>)
    ELSE LET x == IF a = <<>> THEN 0 ELSE a[Len(a)]
             y == IF b = <<>> THEN 0 ELSE b[Len(b)]
             t == x + y + c
         IN  AddStep(Slice(a, 1, Len(a) - 1), Slice(b, 1, Len(b) - 1), t \div 10)
                \o <<t % 10>>

BigAdd(a, b) == Norm(AddStep(a, b, 0))

\* a <= b
BigLeq(a, b) ==
    \/ Len(a) < Len(b)
    \/ /\ Len(a) = Len(b)
       /\ \/ a = b
          \/ \E k \in 1..Len(a) :
                /\ a[k] < b[k]
                /\ \A j \in 1..(k - 1) : a[j] = b[j]

SHIFT == 22

\* twitter_epoch = 1288834974657
TWITTER_EPOCH == <<1, 2, 8, 8, 8, 3, 4, 9, 7, 4, 6, 5, 7>>

\* n >> (k - 1)
ShiftRightOneLess(n, k) == BigDivMod(n, 2 ^ (k - 1)).quot

\* n >> k, for n >= 0
ShiftRight(n, k) == BigDivMod(n, 2 ^ k).quot

\* timestamp_ms = (tweet_id_int >> 22) + twitter_epoch
timestamp_ms(tweet_id) == BigAdd(ShiftRight(int(tweet_id), SHIFT), TWITTER_EPOCH)

\* the last millisecond datetime can represent: 9999-12-31T23:59:59.999
MAX_TIMESTAMP_MS == <<2, 5, 3, 4, 0, 2, 3, 0, 0, 7, 9, 9, 9, 9, 9>>

\* the proleptic Gregorian date of a day number (days since 1970-01-01)
CivilFromDays(days) ==
    LET z == days + 719468
        era == z \div 146097
        doe == z - era * 146097
        yoe == (doe - doe \div 1460 + doe \div 36524 - doe \div 146096) \div 365
        doy == doe - (365 * yoe + yoe \div 4 - yoe \div 100)
        mp == (5 * doy + 2) \div 153
        d == doy - (153 * mp + 2) \div 5 + 1
        m == IF mp < 10 THEN mp + 3 ELSE mp - 9
        y == yoe + era * 400 + (IF m <= 2 THEN 1 ELSE 0)
    IN  [year |-> y, month |-> m, day |-> d]

\* datetime.fromtimestamp(timestamp_ms / 1000), with the process's time zone
\* taken to be UTC: the datetime as the tuple <<year, month, day, hour,
\* minute, second, microsecond>>, or None where Python raises (a year past
\* 9999).  The float division is exact to the microsecond for the
\* timestamps of 63-bit ids; the ids of this model are such ids, or ids
\* whose year is far past 9999.
fromtimestamp_ms(ts) ==
    IF ~BigLeq(ts, MAX_TIMESTAMP_MS) THEN None
    ELSE LET secs == BigDivMod(ts, 1000)
             days == BigDivMod(secs.quot, 86400)
             date == CivilFromDays(SmallOf(days.quot))
         IN  <<date.year, date.month, date.day,
               days.rem \div 3600, (days.rem % 3600) \div 60, days.rem % 60,
               secs.rem * 1000>>

\* lines 184-192: the try block that decodes the date
DecodeTweetDate(tweet_id) == fromtimestamp_ms(timestamp_ms(tweet_id))

\* the decimal digits of n, zero-padded to width w
RECURSIVE Pad(_, _)
Pad(n, w) ==
    IF w = 0 THEN <<>> ELSE Pad(n \div 10, w - 1) \o <<DigitChars[(n % 10) + 1]>>

\* datetime.isoformat(): YYYY-MM-DDTHH:MM:SS, then .ffffff unless the
\* microsecond is 0
isoformat(dt) ==
    Pad(dt[1], 4) \o <<"-">> \o Pad(dt[2], 2) \o <<"-">> \o Pad(dt[3], 2)
        \o <<"T">> \o Pad(dt[4], 2) \o <<":">> \o Pad(dt[5], 2)
        \o <<":">> \o Pad(dt[6], 2)
        \o (IF dt[7] = 0 THEN <<>> ELSE <<".">> \o Pad(dt[7], 6))

\* 'created_time': tweet_date.isoformat() if tweet_date else None
created_time(tweet_date) ==
    IF tweet_date = None THEN None ELSE isoformat(tweet_date)

(***************************************************************************)
(* Content Extractor: lines 194-225.  A parsed page (the BeautifulSoup     *)
(* tree) is the sequence of its elements in document order; an element has *)
(* a tag, its set of CSS classes, the text nodes directly inside it and    *)
(* its depth in the tree.  The descendants of an element are the elements  *)
(* after it, up to the next element that is not deeper than it.            *)
(***************************************************************************)

Descendants(page, i) ==
    {j \in (i + 1)..Len(page) :
        \A k \in (i + 1)..j : page[k].depth > page[i].depth}

\* the elements of a set of indices, as the sequence of indices in
\* document order
RECURSIVE InOrder(_)
InOrder(S) == IF S = {} THEN <<>> ELSE <<Min(S)>> \o InOrder(S \ {Min(S)})

\* "".join of the stripped, non-empty strings of a sequence of text nodes
RECURSIVE JoinStripped(_)
JoinStripped(strings) ==
    IF strings = <<>> THEN <<>>
    ELSE Strip(Head(strings)) \o JoinStripped(Tail(strings))

\* the text nodes of the elements idx (a sequence of indices), in order
RECURSIVE StringsOf(_, _)
StringsOf(page, idx) ==
    IF idx = <<>> THEN <<>>
    ELSE page[Head(idx)].strings \o StringsOf(page, Tail(idx))

\* elem.get_text(strip=True): every text node of the element and of its
\* descendants, each stripped, joined with no separator
get_text(page, i) ==
    JoinStripped(StringsOf(page, InOrder({i} \cup Descendants(page, i))))

\* soup.find_all(tag, {'class': cls}), among the elements `among`
find_all(page, among, tag, cls) ==
    InOrder({i \in among : page[i].tag = tag /\ cls \in page[i].class})

MIN_BLOCK == 20

\* if text and len(text) > 20
Qualifies(text) == text # <<>> /\ Len(text) > MIN_BLOCK

\* the inner loops, lines 209-212 and 222-225: the qualifying texts of the
\* elements idx, appended to tweet_texts
RECURSIVE AppendTexts(_, _, _)
AppendTexts(page, idx, tweet_texts) ==
    IF idx = <<>> THEN tweet_texts
    ELSE LET text == get_text(page, Head(idx))
         IN  AppendTexts(page, Tail(idx),
                         IF Qualifies(text) THEN Append(tweet_texts, text)
                         ELSE tweet_texts)

\* lines 198-203
selectors ==
    << <<"div", "tweet-text">>, <<"div", "content-tweet">>,
       <<"p", "tweet">>, <<"div", "t-main">> >>

\* the break of line 214 left out: every selector adds its blocks
BreakNever(tweet_texts) == FALSE

\* lines 213-214: leave the selector loop
BreakLoop(tweet_texts) == tweet_texts # <<>>

\* lines 205-214: the selector loop from selector k on
RECURSIVE SelectorLoop(_, _, _)
SelectorLoop(page, k, tweet_texts) ==
    IF k > Len(selectors) THEN tweet_texts
    ELSE LET elements == find_all(page, 1..Len(page),
                                  selectors[k][1], selectors[k][2])
         IN  IF elements # <<>>
             THEN LET texts == AppendTexts(page, elements, tweet_texts)
                  IN  IF BreakLoop(texts) THEN texts
                      ELSE SelectorLoop(page, k + 1, texts)
             ELSE SelectorLoop(page, k + 1, tweet_texts)

\* lines 216-225: the paragraphs of the first div of class content
ParagraphFallback(page, tweet_texts) ==
    IF tweet_texts # <<>> THEN tweet_texts
    ELSE LET found == find_all(page, 1..Len(page), "div", "content")
         IN  IF found = <<>> THEN tweet_texts
             ELSE LET main_content == Head(found)
                      paragraphs ==
                          InOrder({i \in Descendants(page, main_content) :
                                      page[i].tag = "p"})
                  IN  AppendTexts(page, paragraphs, tweet_texts)

\* lines 194-225
ExtractTweetTexts(page) == ParagraphFallback(page, SelectorLoop(page, 1, <<>>))

\* '\n\n'.join(tweet_texts)
RECURSIVE JoinBlocks(_)
JoinBlocks(tweet_texts) ==
    IF tweet_texts = <<>> THEN <<>>
    ELSE IF Len(tweet_texts) = 1 THEN Head(tweet_texts)
         ELSE Head(tweet_texts) \o L_blank_line \o JoinBlocks(Tail(tweet_texts))

(***************************************************************************)
(* Persistence and the invocation: fetch_thread_content, lines 121-151,    *)
(* and _fetch_with_threadreader, lines 153-264                             *)
(***************************************************************************)

L_threadreader ==
    <<"h", "t", "t", "p", "s", ":", "/", "/", "t", "h", "r", "e", "a", "d",
      "r", "e", "a", "d", "e", "r", "a", "p", "p", ".", "c", "o", "m", "/",
      "t", "h", "r", "e", "a", "d", "/">>

L_html ==
    <<".", "h", "t", "m", "l">>

\* str(self.raw_dir) and the path separator, with base_dir taken to be /repo
L_raw_dir ==
    <<"/", "r", "e", "p", "o", "/", "t", "r", "a", "n", "s", "c", "r", "i",
      "p", "t", "/", "r", "a", "w", "/">>

L_thread_txt ==
    <<"_", "t", "h", "r", "e", "a", "d", ".", "t", "x", "t">>

L_twitter_thread ==
    <<"t", "w", "i", "t", "t", "e", "r", "_", "t", "h", "r", "e", "a", "d">>

\* f"https://threadreaderapp.com/thread/{tweet_id}.html"
threadreader_url(tweet_id) == L_threadreader \o tweet_id \o L_html

\* filename = f"{username}_{tweet_id}_thread.txt"
Filename(username, tweet_id) == username \o <<"_">> \o tweet_id \o L_thread_txt

\* str(self.raw_dir / filename)
FilePath(filename) == L_raw_dir \o filename

\* lines 236-242: the dict, as the sequence of its (key, value) pairs
ThreadInfo(inferred_title, username, twitter_url, tweet_date) ==
    << <<"title", inferred_title>>,
       <<"uploader", username>>,
       <<"url", twitter_url>>,
       <<"created_time", created_time(tweet_date)>>,
       <<"type", L_twitter_thread>> >>

\* d[key]
Get(dict, key) == dict[CHOOSE i \in 1..Len(dict) : dict[i][1] = key][2]

\* the UTF-8 bytes of a character: an ASCII character is its own byte, and
\* U+00E9 is the two bytes C3 A9
Utf8Char(c) == IF c = "U+00E9" THEN <<"0xC3", "0xA9">> ELSE <<c>>

\* text.encode('utf-8')
RECURSIVE Utf8Encode(_)
Utf8Encode(text) ==
    IF text = <<>> THEN <<>>
    ELSE Utf8Encode(SubSeq(text, 1, Len(text) - 1)) \o Utf8Char(text[Len(text)])

\* bytes.decode('utf-8'), of well-formed bytes
RECURSIVE Utf8Decode(_)
Utf8Decode(bytes) ==
    IF bytes = <<>> THEN <<>>
    ELSE IF StartsWithAt(bytes, 1, <<"0xC3", "0xA9">>)
         THEN <<"U+00E9">> \o Utf8Decode(SubSeq(bytes, 3, Len(bytes)))
         ELSE <<Head(bytes)>> \o Utf8Decode(Tail(bytes))

\* open(file_path, 'w'): the file is created or truncated to no bytes
OpenForWrite(old) == <<>>

\* a handle that appends: the bytes go after what the file holds
WriteAtEnd(old, bytes) == (IF old = None THEN <<>> ELSE old) \o bytes

\* the write of `bytes` at offset 0 of a file holding `old`: a handle opened
\* with 'w' starts at offset 0, and what lies past the written bytes stays
WriteAtStart(old, bytes) ==
    bytes \o (IF old = None THEN <<>> ELSE Slice(old, Len(bytes) + 1, Len(old)))

\* return False, None, None
FAILURE == <<FALSE, None, None>>

\* return True, str(file_path), thread_info
Success(file_path, thread_info) == <<TRUE, file_path, thread_info>>

\* the check of line 227 left out
HasTweetsAlways(tweet_texts) == TRUE

\* if tweet_texts: (line 227)
HasTweets(tweet_texts) == tweet_texts # <<>>

\* if response.status_code == 200: (line 179)
StatusOk(status_code) == status_code = 200

\* if not tweet_id or not username: (line 137)
Unclassified(tweet_id, username) ==
    tweet_id = None \/ tweet_id = <<>> \/ username = None \/ username = <<>>

(***************************************************************************)
(* The inputs of an invocation: the URL the caller passes, and what the    *)
(* mirror service answers                                                  *)
(***************************************************************************)

\* a thread URL
URL_ALICE_X ==
    <<"h", "t", "t", "p", "s", ":", "/", "/", "x", ".", "c", "o", "m", "/",
      "a", "l", "i", "c", "e", "/", "s", "t", "a", "t", "u", "s", "/", "1",
      "7", "0", "0", "0", "0", "0", "0", "0", "0", "0", "0", "0", "0", "0",
      "0", "0", "0", "0">>

\* the same thread by its other address: the same output file
URL_ALICE_TWITTER ==
    <<"h", "t", "t", "p", ":", "/", "/", "w", "w", "w", ".", "t", "w", "i",
      "t", "t", "e", "r", ".", "c", "o", "m", "/", "a", "l", "i", "c", "e",
      "/", "s", "t", "a", "t", "u", "s", "/", "1", "7", "0", "0", "0", "0",
      "0", "0", "0", "0", "0", "0", "0", "0", "0", "0", "0", "0", "0", "?",
      "s", "=", "2", "0">>

\* not a twitter.com or x.com URL, with a status path
URL_BOB_ELSEWHERE ==
    <<"h", "t", "t", "p", "s", ":", "/", "/", "e", "v", "i", "l", ".", "i",
      "o", "/", "b", "o", "b", "/", "s", "t", "a", "t", "u", "s", "/", "1",
      "2", "3", "4", "5", "6", "7", "8", "9", "0", "1", "2", "3", "4", "5",
      "6", "7", "8", "9">>

\* no /status/ part
URL_NO_STATUS ==
    <<"h", "t", "t", "p", "s", ":", "/", "/", "x", ".", "c", "o", "m", "/",
      "a", "l", "i", "c", "e">>

\* matches the thread-URL pattern, but no run of word characters lies between a / and /status/
URL_HYPHEN ==
    <<"h", "t", "t", "p", "s", ":", "/", "/", "x", ".", "c", "o", "m", "/",
      "a", "l", "-", "i", "c", "e", "/", "s", "t", "a", "t", "u", "s", "/",
      "1", "2">>

\* an id whose date lies past the year 9999
URL_CAROL_HUGE ==
    <<"h", "t", "t", "p", "s", ":", "/", "/", "x", ".", "c", "o", "m", "/",
      "c", "a", "r", "o", "l", "/", "s", "t", "a", "t", "u", "s", "/", "9",
      "9", "9", "9", "9", "9", "9", "9", "9", "9", "9", "9", "9", "9", "9",
      "9", "9", "9", "9", "9", "9", "9">>

\* a small id: one millisecond after the epoch offset
URL_DAVE_SMALL ==
    <<"h", "t", "t", "p", "s", ":", "/", "/", "t", "w", "i", "t", "t", "e",
      "r", ".", "c", "o", "m", "/", "d", "a", "v", "e", "_", "1", "/", "s",
      "t", "a", "t", "u", "s", "/", "4", "1", "9", "4", "3", "0", "4">>

\* no scheme and no host
URL_BARE_PATH ==
    <<"/", "e", "r", "i", "n", "/", "s", "t", "a", "t", "u", "s", "/", "2",
      "0">>

\* the URLs a caller passes: strings (the empty one too), and None
Urls ==
    {URL_ALICE_X, URL_ALICE_TWITTER, URL_BOB_ELSEWHERE, URL_NO_STATUS,
     URL_HYPHEN, URL_CAROL_HUGE, URL_DAVE_SMALL, URL_BARE_PATH,
     <<>>, None}

TXT_FIRST ==
    <<"\n", " ", " ", "C", "h", "e", "c", "k", " ", "o", "u", "t", " ",
      "t", "h", "i", "s", " ", "b", "r", "e", "a", "k", "d", "o", "w", "n",
      " ", "o", "f", " ", "d", "e", "s", "i", "g", "n", " ", "p", "a", "t",
      "t", "e", "r", "n", "s", " ", "(", "t", "h", "r", "e", "a", "d", ")",
      " ", "h", "t", "t", "p", "s", ":", "/", "/", "e", "x", "a", "m", "p",
      "l", "e", ".", "c", "o", "m", "/", "x", " ", "\n">>

TXT_SECOND ==
    <<"S", "e", "c", "o", "n", "d", " ", "t", "w", "e", "e", "t", ":", " ",
      "c", "a", "f", "U+00E9", " ", "n", "o", "t", "e", "s">>

TXT_SHORT ==
    <<" ", "e", "x", "a", "c", "t", "l", "y", " ", "t", "w", "e", "n", "t",
      "y", " ", "c", "h", "a", "r", "s", " ">>

TXT_PARAGRAPH ==
    <<"a", " ", "p", "l", "a", "i", "n", " ", "p", "a", "r", "a", "g", "r",
      "a", "p", "h", " ", "o", "f", " ", "t", "e", "x", "t">>

TXT_TWO_PARAGRAPHS ==
    <<"I", "n", "t", "r", "o", " ", "l", "i", "n", "e", " ", "o", "f", " ",
      "t", "h", "e", " ", "t", "w", "e", "e", "t", "\n", "\n", "a", "n",
      "d", " ", "i", "t", "s", " ", "s", "e", "c", "o", "n", "d", " ", "p",
      "a", "r", "a", "g", "r", "a", "p", "h">>

TXT_HALF_A ==
    <<"t", "h", "i", "r", "d", " ", "s", "e", "l", "e", "c", "t", "o", "r",
      " ">>

TXT_HALF_B ==
    <<" ", "i", "n", " ", "t", "w", "o", " ", "s", "t", "r", "i", "n", "g",
      "s">>

TXT_MAIN ==
    <<"f", "o", "u", "r", "t", "h", " ", "s", "e", "l", "e", "c", "t", "o",
      "r", " ", "b", "l", "o", "c", "k", " ", "t", "e", "x", "t">>

Element(tag, class, strings, depth) ==
    [tag |-> tag, class |-> class, strings |-> strings, depth |-> depth]

\* two tweets under the first selector
PAGE_TWO_TWEETS ==
    << Element("div", {"tweet-text"}, <<TXT_FIRST>>, 0),
       Element("div", {"tweet-text", "last"}, <<TXT_SECOND>>, 0) >>

\* nothing long enough under the selectors; a paragraph in div.content
PAGE_PARAGRAPHS ==
    << Element("div", {"tweet-text"}, <<TXT_SHORT>>, 0),
       Element("div", {"content"}, <<>>, 0),
       Element("p", {}, <<TXT_PARAGRAPH>>, 1) >>

\* no text longer than 20 characters anywhere
PAGE_NOTHING ==
    << Element("div", {"t-main"}, <<TXT_SHORT>>, 0),
       Element("div", {"content"}, <<TXT_PARAGRAPH>>, 0) >>

\* one tweet whose text holds a blank line
PAGE_BLANK_LINE ==
    << Element("div", {"content-tweet"}, <<TXT_TWO_PARAGRAPHS>>, 0),
       Element("div", {"t-main"}, <<TXT_MAIN>>, 0) >>

Pages == {PAGE_TWO_TWEETS, PAGE_PARAGRAPHS, PAGE_NOTHING, PAGE_BLANK_LINE}

\* what requests.get and BeautifulSoup do: the GET raises (a transport error
\* or the timeout), or answers with a status code; the body of a 200 parses
\* into a page, or the parser raises
Response(raised, status_code, parse_raised, page) ==
    [raised |-> raised, status_code |-> status_code,
     parse_raised |-> parse_raised, page |-> page]

Responses ==
    {Response(TRUE, 0, FALSE, <<>>),
     Response(FALSE, 404, FALSE, <<>>),
     Response(FALSE, 200, TRUE, <<>>)}
        \cup {Response(FALSE, 200, FALSE, page) : page \in Pages}

(***************************************************************************)
(* The state machine.  An invocation of fetch_thread_content runs in the   *)
(* steps at which the outside world acts: the call up to the GET, the      *)
(* answer of the mirror and all the computing up to the open, the open of  *)
(* the output file, and the write (flushed when the with block closes the  *)
(* file) with the return.                                                  *)
(***************************************************************************)

\* the invocations that may run at the same time
Procs == {1, 2}

\* calls one caller makes, one after the other
MaxCalls == 2

\* the paths an invocation can write to
FilePaths ==
    {FilePath(Filename(extract_username(u), extract_tweet_id(u))) :
        u \in {v \in Urls \ {None} :
                  ~Unclassified(extract_tweet_id(v), extract_username(v))}}

\* the local variables of an invocation; cause, status_code and fs0 (the
\* files as they were when the invocation began) record what happened
NoFrame ==
    [twitter_url |-> None, tweet_id |-> None, username |-> None,
     status_code |-> 0, timestamp_ms |-> <<>>, tweet_date |-> None,
     tweet_texts |-> <<>>, thread_content |-> None, inferred_title |-> None,
     thread_info |-> None, file_path |-> None, cause |-> "none"]

HarnessIdle == call = [fn |-> "none"] /\ ret = None

InitPipeline ==
    /\ pc = [p \in Procs |-> "idle"]
    /\ frame = [p \in Procs |-> NoFrame @@ [calls |-> 0, fs0 |-> <<>>]]
    /\ result = [p \in Procs |-> None]
    /\ fs = [f \in FilePaths |-> None]
    /\ requests = <<>>
    /\ events = [p \in Procs |-> <<>>]
    /\ writes = <<>>

Init == HarnessIdle /\ InitPipeline

\* an exception that is not caught: the invocation ends with no result
FailRaising(p, fr, cause) ==
    /\ pc' = [pc EXCEPT ![p] = "raised"]
    /\ frame' = [frame EXCEPT ![p] = [fr EXCEPT !.cause = cause]]
    /\ UNCHANGED result

\* the except blocks, lines 147-151 and 260-264, and the failure returns
Fail(p, fr, cause) ==
    /\ pc' = [pc EXCEPT ![p] = "done"]
    /\ frame' = [frame EXCEPT ![p] = [fr EXCEPT !.cause = cause]]
    /\ result' = [result EXCEPT ![p] = FAILURE]

\* lines 131-145 and 165-177: the call, up to the GET being sent
Start(p, twitter_url) ==
    /\ pc[p] = "idle"
    /\ frame[p].calls < MaxCalls
    /\ LET \* re.search on None raises TypeError
           raised == twitter_url = None
           tweet_id == IF raised THEN None ELSE extract_tweet_id(twitter_url)
           username == IF raised THEN None ELSE extract_username(twitter_url)
           fr == [NoFrame @@ [calls |-> frame[p].calls + 1, fs0 |-> fs]
                     EXCEPT !.twitter_url = twitter_url,
                            !.tweet_id = tweet_id,
                            !.username = username]
       IN  IF raised \/ Unclassified(tweet_id, username)
           THEN /\ Fail(p, fr, IF raised THEN "raised" ELSE "classification")
                /\ events' = [events EXCEPT ![p] = <<>>]
                /\ UNCHANGED requests
           ELSE /\ pc' = [pc EXCEPT ![p] = "get"]
                /\ frame' = [frame EXCEPT ![p] = fr]
                /\ result' = [result EXCEPT ![p] = None]
                /\ requests' = Append(requests, threadreader_url(tweet_id))
                /\ events' = [events EXCEPT ![p] = <<"GET">>]
    /\ UNCHANGED <<call, ret, fs, writes>>

\* lines 171-246: the answer of the GET, the date, the extraction, the title
\* and the metadata, up to the open of the output file
Receive(p, response) ==
    /\ pc[p] = "get"
    /\ LET fr0 == [frame[p] EXCEPT !.status_code = response.status_code]
       IN  IF response.raised THEN Fail(p, fr0, "transport")
           ELSE IF ~StatusOk(response.status_code) THEN Fail(p, fr0, "status")
           ELSE IF response.parse_raised THEN Fail(p, fr0, "parse")
           ELSE LET tweet_texts == ExtractTweetTexts(response.page)
                    tweet_date == DecodeTweetDate(fr0.tweet_id)
                    fr1 == [fr0 EXCEPT
                               !.timestamp_ms = timestamp_ms(fr0.tweet_id),
                               !.tweet_date = tweet_date,
                               !.tweet_texts = tweet_texts]
                IN  IF ~HasTweets(tweet_texts) THEN Fail(p, fr1, "empty")
                    ELSE LET thread_content == JoinBlocks(tweet_texts)
                             inferred_title ==
                                 infer_title_from_content(thread_content,
                                                          fr1.username)
                         IN  /\ pc' = [pc EXCEPT ![p] = "open"]
                             /\ frame' = [frame EXCEPT ![p] =
                                   [fr1 EXCEPT
                                      !.thread_content = thread_content,
                                      !.inferred_title = inferred_title,
                                      !.thread_info =
                                          ThreadInfo(inferred_title,
                                                     fr1.username,
                                                     fr1.twitter_url,
                                                     tweet_date),
                                      !.file_path =
                                          FilePath(Filename(fr1.username,
                                                            fr1.tweet_id))]]
                             /\ UNCHANGED result
    /\ UNCHANGED <<call, ret, fs, requests, events, writes>>

\* line 248: open(file_path, 'w', encoding='utf-8'), which raises OSError or
\* creates or truncates the file
Open(p, opened) ==
    /\ pc[p] = "open"
    /\ IF opened
       THEN /\ fs' = [fs EXCEPT ![frame[p].file_path] = OpenForWrite(@)]
            /\ pc' = [pc EXCEPT ![p] = "write"]
            /\ events' = [events EXCEPT ![p] = Append(@, "OPEN")]
            /\ UNCHANGED <<frame, result>>
       ELSE /\ Fail(p, frame[p], "open")
            /\ UNCHANGED <<fs, events>>
    /\ UNCHANGED <<call, ret, requests, writes>>

\* lines 249-252: f.write(thread_content), whose bytes reach the file when
\* the with block closes it, and the return; or the write raises OSError
\* with nothing written
Write(p, written) ==
    /\ pc[p] = "write"
    /\ IF written
       THEN /\ fs' = [fs EXCEPT ![frame[p].file_path] =
                         WriteAtStart(@, Utf8Encode(frame[p].thread_content))]
            /\ pc' = [pc EXCEPT ![p] = "done"]
            /\ frame' = [frame EXCEPT ![p].cause = "ok"]
            /\ result' = [result EXCEPT ![p] =
                             Success(frame[p].file_path, frame[p].thread_info)]
            /\ events' = [events EXCEPT ![p] = Append(@, "WRITE")]
            /\ writes' = Append(writes, <<p, frame[p].file_path>>)
       ELSE /\ Fail(p, frame[p], "write")
            /\ UNCHANGED <<fs, events, writes>>
    /\ UNCHANGED <<call, ret, requests>>

\* the caller has the result; it may call again
Return(p) ==
    /\ pc[p] = "done"
    /\ frame[p].calls < MaxCalls
    /\ pc' = [pc EXCEPT ![p] = "idle"]
    /\ UNCHANGED <<call, ret, frame, result, fs, requests, events, writes>>

Step(p) ==
    \/ \E twitter_url \in Urls : Start(p, twitter_url)
    \/ \E response \in Responses : Receive(p, response)
    \/ \E opened \in BOOLEAN : Open(p, opened)
    \/ \E written \in BOOLEAN : Write(p, written)
    \/ Return(p)

\* one caller: the invocations follow one another
Next == Step(1)

Spec == Init /\ [][Next]_vars

(***************************************************************************)
(* Two invocations at the same time, for the same thread: each opens and   *)
(* writes the same output file through a handle of its own.                *)
(***************************************************************************)

\* two addresses of one thread
RaceUrls == {URL_ALICE_X, URL_ALICE_TWITTER}

StepRace(p) ==
    \/ \E twitter_url \in RaceUrls : Start(p, twitter_url)
    \/ \E response \in Responses : Receive(p, response)
    \/ \E opened \in BOOLEAN : Open(p, opened)
    \/ \E written \in BOOLEAN : Write(p, written)

NextRace == \E p \in Procs : StepRace(p)

SpecRace == Init /\ [][NextRace]_vars

(***************************************************************************)
(* infer_title_from_content on its own: the thread text is a concatenation *)
(* of at most MaxTitleChunks of the chunks below.                          *)
(***************************************************************************)

\* 50 characters: two of them are 100 characters, one more character is 101
CHUNK_WORDS ==
    <<"F", "i", "f", "t", "y", " ", "c", "h", "a", "r", "a", "c", "t", "e",
      "r", "s", " ", "o", "f", " ", "p", "l", "a", "i", "n", " ", "w", "o",
      "r", "d", "s", " ", "w", "i", "t", "h", " ", "n", "o", " ", "f", "u",
      "l", "l", " ", "s", "t", "o", "p", "s">>

\* a sentence boundary
CHUNK_STOP ==
    <<".", " ">>

CHUNK_URL ==
    <<" ", "h", "t", "t", "p", "s", ":", "/", "/", "t", ".", "c", "o", "/",
      "a", "b", " ">>

CHUNK_MARKER ==
    <<"(", "T", "h", "r", "e", "a", "d", ")">>

\* a marker around a marker
CHUNK_NESTED_MARKER ==
    <<"[", "t", "h", "r", "(", "T", "H", "R", "E", "A", "D", ")", "e", "a",
      "d", "]">>

\* a marker inside a URL's scheme
CHUNK_NESTED_URL ==
    <<"h", "t", "t", "p", "[", "t", "h", "r", "e", "a", "d", "]", "s", ":",
      "/", "/", "t", ".", "c", "o", "/", "c", "d">>

CHUNK_BLANK_LINE ==
    <<"\n", "\n">>

CHUNK_X ==
    <<"x">>

\* 19 characters: one more character is 20
CHUNK_NINETEEN ==
    <<"n", "i", "n", "e", "t", "e", "e", "n", " ", "c", "h", "a", "r", "a",
      "c", "t", "e", "r", "s">>

TitleChunks ==
    {CHUNK_WORDS, CHUNK_STOP, CHUNK_URL, CHUNK_MARKER,
     CHUNK_NESTED_MARKER, CHUNK_NESTED_URL, CHUNK_BLANK_LINE,
     CHUNK_X, CHUNK_NINETEEN}

HANDLE_ALICE ==
    <<"a", "l", "i", "c", "e">>

HANDLE_BOB ==
    <<"b", "o", "b", "_", "1">>

Handles == {HANDLE_ALICE, HANDLE_BOB}

MaxTitleChunks == 3

\* the sequences of at most n elements of S
SeqsUpTo(S, n) == UNION {[1..k -> S] : k \in 0..n}

TitleTexts == {Concat(cs) : cs \in SeqsUpTo(TitleChunks, MaxTitleChunks)}

InitTitle ==
    /\ call \in {[fn |-> "input", thread_content |-> t, username |-> h] :
                    t \in TitleTexts, h \in Handles}
    /\ ret = None
    /\ InitPipeline

InferTitle ==
    /\ call.fn = "input"
    /\ call' = [call EXCEPT !.fn = "infer_title_from_content"]
    /\ ret' = infer_title_from_content(call.thread_content, call.username)
    /\ UNCHANGED <<pc, frame, result, fs, requests, events, writes>>

SpecTitle == InitTitle /\ [][InferTitle]_vars

(***************************************************************************)
(* The content extractor on its own: a page is at most MaxElements         *)
(* elements, each one of the elements below at depth 0 or 1.               *)
(***************************************************************************)

ElementShapes ==
    {Element("div", {"tweet-text"}, <<TXT_FIRST>>, 0),
     Element("div", {"tweet-text"}, <<TXT_SHORT>>, 0),
     Element("div", {"content-tweet"}, <<TXT_SECOND>>, 0),
     Element("p", {"tweet"}, <<TXT_HALF_A, TXT_HALF_B>>, 0),
     Element("div", {"t-main"}, <<TXT_MAIN>>, 0),
     Element("div", {"content"}, <<>>, 0),
     Element("p", {}, <<TXT_PARAGRAPH>>, 0),
     Element("p", {}, <<TXT_SHORT>>, 0)}

Depths == {0, 1}

Elements == {[e EXCEPT !.depth = depth] : e \in ElementShapes, depth \in Depths}

MaxElements == 3

\* the first element is at depth 0, and an element is at most one level
\* deeper than the element before it
WellNested(page) ==
    /\ page # <<>> => page[1].depth = 0
    /\ \A k \in 2..Len(page) : page[k].depth <= page[k - 1].depth + 1

ExtractPages == {page \in SeqsUpTo(Elements, MaxElements) : WellNested(page)}

InitExtract ==
    /\ call \in {[fn |-> "input", page |-> page] : page \in ExtractPages}
    /\ ret = None
    /\ InitPipeline

Extract ==
    /\ call.fn = "input"
    /\ call' = [call EXCEPT !.fn = "extract"]
    /\ ret' = ExtractTweetTexts(call.page)
    /\ UNCHANGED <<pc, frame, result, fs, requests, events, writes>>

SpecExtract == InitExtract /\ [][Extract]_vars

(***************************************************************************)
(* Properties                                                              *)
(***************************************************************************)

\* the invocation of the one caller of Spec
Caller == Min(Procs)

Returned(p) == pc[p] = "done"

Succeeded(p) == Returned(p) /\ result[p][1] = TRUE

\* C1: an invocation on a URL that does not match the thread-URL pattern
\* (is_twitter_url is false for it) sends no GET and returns
\* (False, None, None).
C1_NoGetUnlessThreadUrl ==
    \A p \in Procs :
        (frame[p].calls > 0 /\ ~is_twitter_url(frame[p].twitter_url)) =>
            /\ events[p] = <<>>
            /\ Returned(p) => result[p] = FAILURE

\* C2: no invocation ends in a raised exception, and a returned triple is
\* either (True, path, metadata) with both present or (False, None, None).
C2_ResultShape ==
    \A p \in Procs :
        /\ pc[p] \in {"idle", "get", "open", "write", "done"}
        /\ Returned(p) =>
              \/ result[p] = FAILURE
              \/ /\ Len(result[p]) = 3
                 /\ result[p][1] = TRUE
                 /\ result[p][2] # None
                 /\ result[p][3] # None

\* an exception of the file write, after the open truncated the file, came
\* back as the failure triple
C2_Witness ==
    /\ Returned(Caller)
    /\ frame[Caller].cause = "write"
    /\ result[Caller] = FAILURE
    /\ fs[frame[Caller].file_path] = <<>>

\* C3: the file is opened only after the one GET answered 200 and the
\* extraction found a qualifying block; when the GET raised, answered
\* another status or the page had no qualifying text, the result is
\* (False, None, None) and no file was created or changed.
C3_NoWriteOnFetchFailure ==
    /\ "OPEN" \in {events[Caller][k] : k \in 1..Len(events[Caller])} =>
          /\ Head(events[Caller]) = "GET"
          /\ Len(SelectSeq(events[Caller], LAMBDA e : e = "GET")) = 1
          /\ frame[Caller].status_code = 200
          /\ frame[Caller].tweet_texts # <<>>
          /\ \A k \in 1..Len(frame[Caller].tweet_texts) :
                Len(frame[Caller].tweet_texts[k]) > 20
    /\ (Returned(Caller)
          /\ frame[Caller].cause \in {"transport", "status", "empty"}) =>
          /\ result[Caller] = FAILURE
          /\ events[Caller] = <<"GET">>
          /\ fs = frame[Caller].fs0

\* a second invocation found no qualifying text, and the file the first one
\* wrote is as it was
C3_Witness ==
    /\ Returned(Caller)
    /\ frame[Caller].calls = 2
    /\ frame[Caller].cause = "empty"
    /\ frame[Caller].status_code = 200
    /\ \E f \in FilePaths : fs[f] # None /\ fs[f] # <<>>
    /\ fs = frame[Caller].fs0

\* s.split(sep)
RECURSIVE SplitAll(_, _)
SplitAll(s, sep) ==
    LET at == {i \in 1..Len(s) : StartsWithAt(s, i, sep)}
    IN  IF at = {} THEN <<s>>
        ELSE <<Slice(s, 1, Min(at) - 1)>>
                \o SplitAll(Slice(s, Min(at) + Len(sep), Len(s)), sep)

\* C5: after a successful invocation the file holds exactly the blocks
\* joined by a blank line, whatever it held before, so that splitting its
\* text on the blank line gives back exactly the blocks.
C5_FileSplitsIntoBlocks ==
    Succeeded(Caller) =>
        LET text == Utf8Decode(fs[frame[Caller].file_path])
        IN  /\ text = JoinBlocks(frame[Caller].tweet_texts)
            /\ SplitAll(text, L_blank_line) = frame[Caller].tweet_texts

\* a * m, digit by digit from the right with carry c
RECURSIVE MulStep(_, _, _)
MulStep(a, m, c) ==
    IF a = <<>> THEN (IF c = 0 THEN <<>> ELSE BigOf(c))
    ELSE LET t == a[Len(a)] * m + c
         IN  MulStep(Slice(a, 1, Len(a) - 1), m, t \div 10) \o <<t % 10>>

BigMulSmall(a, m) == Norm(MulStep(a, m, 0))

BigLess(a, b) == BigLeq(a, b) /\ a # b

\* the day number of a date (days since 1970-01-01)
DaysFromCivil(year, month, day) ==
    LET y == IF month <= 2 THEN year - 1 ELSE year
        era == y \div 400
        yoe == y - era * 400
        doy == (153 * (IF month > 2 THEN month - 3 ELSE month + 9) + 2) \div 5
                  + day - 1
        doe == yoe * 365 + yoe \div 4 - yoe \div 100 + doy
    IN  era * 146097 + doe - 719468

\* the number the decimal digits s[i..j] spell
Number(s, i, j) == SmallOf([k \in 1..(j - i + 1) |-> DigitVal(s[i + k - 1])])

\* the milliseconds since 1970-01-01T00:00:00 that an ISO-8601 text
\* YYYY-MM-DDTHH:MM:SS[.ffffff] spells
MillisOfIso(s) ==
    LET days == DaysFromCivil(Number(s, 1, 4), Number(s, 6, 7), Number(s, 9, 10))
        second_of_day == Number(s, 12, 13) * 3600 + Number(s, 15, 16) * 60
                            + Number(s, 18, 19)
        millis == IF Len(s) > 19 THEN Number(s, 21, 26) \div 1000 ELSE 0
    IN  BigAdd(BigMulSmall(BigAdd(BigMulSmall(BigOf(days), 86400),
                                  BigOf(second_of_day)), 1000),
               BigOf(millis))

\* 1288834974657 * 2^22
EPOCH_SHIFTED ==
    <<5, 4, 0, 5, 7, 6, 5, 6, 8, 9, 5, 4, 3, 7, 5, 3, 7, 2, 8>>

\* ts = (id >> 22) + 1288834974657, that is
\* ts * 2^22 <= id + 1288834974657 * 2^22 < (ts + 1) * 2^22
IsSnowflakeTime(ts, id) ==
    /\ BigLeq(BigMulSmall(ts, 4194304), BigAdd(id, EPOCH_SHIFTED))
    /\ BigLess(BigAdd(id, EPOCH_SHIFTED),
               BigAdd(BigMulSmall(ts, 4194304), BigOf(4194304)))

\* 9999-12-31T23:59:59.999 in milliseconds since 1970-01-01T00:00:00
LAST_MILLISECOND == <<2, 5, 3, 4, 0, 2, 3, 0, 0, 7, 9, 9, 9, 9, 9>>

\* the id of the example, 1234567890123456789 (that of URL_BOB_ELSEWHERE)
EXAMPLE_ID ==
    <<"1", "2", "3", "4", "5", "6", "7", "8", "9", "0", "1", "2", "3", "4",
      "5", "6", "7", "8", "9">>

\* (1234567890123456789 >> 22) + 1288834974657 = 1583178896824
EXAMPLE_MILLIS == <<1, 5, 8, 3, 1, 7, 8, 8, 9, 6, 8, 2, 4>>

\* C8: the created_time of the metadata spells the time
\* (id >> 22) + 1288834974657 milliseconds; where that is no time datetime
\* can hold, created_time is None and the invocation still succeeds.
C8_CreatedTimeFromSnowflake ==
    (Returned(Caller) /\ frame[Caller].tweet_texts # <<>>
        /\ frame[Caller].cause \notin {"open", "write"}) =>
        /\ Succeeded(Caller)
        /\ LET id == int(frame[Caller].tweet_id)
               ts == frame[Caller].timestamp_ms
               created == Get(result[Caller][3], "created_time")
           IN  /\ IsSnowflakeTime(ts, id)
               /\ frame[Caller].tweet_id = EXAMPLE_ID => ts = EXAMPLE_MILLIS
               /\ created # None => MillisOfIso(created) = ts
               /\ created = None <=> BigLess(LAST_MILLISECOND, ts)

\* the id of URL_CAROL_HUGE decodes to no date, and the invocation succeeded
C8_Witness ==
    /\ Succeeded(Caller)
    /\ frame[Caller].twitter_url = URL_CAROL_HUGE
    /\ Get(result[Caller][3], "created_time") = None
    /\ fs[frame[Caller].file_path] # None

Written(p) == Utf8Encode(frame[p].thread_content)

\* the invocation whose write to the file came last
LastWriter == writes[Len(writes)][1]

TitleInferred == call.fn = "infer_title_from_content"

\* "Thread by @<handle>" for the handle of the call
Fallback == L_thread_by \o call.username

\* the title candidate: the first segment, cleaned and shortened
Candidate == ShortenTitle(CleanFirstTweet(call.thread_content))

\* C6: when the trimmed title candidate is shorter than 20 characters (as
\* it is for an empty text) the title is exactly "Thread by @<handle>";
\* when it has 20 characters or more, the title is the trimmed candidate.
C6_ShortCandidateFallsBack ==
    TitleInferred =>
        /\ Len(Strip(Candidate)) < 20 => ret = Fallback
        /\ Len(Strip(Candidate)) >= 20 => ret = Strip(Candidate)
        /\ call.thread_content = <<>> => ret = Fallback

\* a candidate of 19 characters gave the fallback title
C6_Witness ==
    /\ TitleInferred
    /\ call.thread_content # <<>>
    /\ Len(Strip(Candidate)) = 19
    /\ ret = Fallback

\* C7: the title holds no URL-shaped text (http:// or https:// and a
\* non-whitespace character) and no (thread) or [thread], in any case.
C7_TitleHasNoUrlOrMarker ==
    TitleInferred =>
        \A i \in 1..Len(ret) : ~UrlAt(ret, i) /\ ~MarkerAt(ret, i)

\* the cleaned first segment, and the title lines 103-113 make of it: the
\* text before the first ., ! or ? that whitespace follows when the segment
\* has more than 100 characters and that text has at most 100, else the
\* first 97 characters and "..."; a segment of at most 100 as it is
Cleaned == CleanFirstTweet(call.thread_content)

Shortened ==
    LET c == Cleaned
        stops == {i \in 1..(Len(c) - 1) :
                     c[i] \in {".", "!", "?"} /\ c[i + 1] \in Whitespace}
        sentence == IF stops = {} THEN c ELSE Slice(c, 1, Min(stops) - 1)
    IN  IF Len(c) <= 100 THEN c
        ELSE IF Len(sentence) <= 100 THEN sentence
             ELSE Slice(c, 1, 97) \o <<".", ".", ".">>

Extracted == call.fn = "extract"

\* the texts of more than 20 characters of the elements idx, in order
Blocks(page, idx) ==
    SelectSeq([n \in 1..Len(idx) |-> get_text(page, idx[n])],
              LAMBDA text : Len(text) > 20)

\* the five sources of blocks, in order: div.tweet-text, div.content-tweet,
\* p.tweet, div.t-main, and the paragraphs inside the first div.content
Source(page, k) ==
    LET all == 1..Len(page)
        is(tag, cls) == {i \in all : page[i].tag = tag /\ cls \in page[i].class}
        container == is("div", "content")
        inside == {i \in all : i > Min(container)
                       /\ \A j \in (Min(container) + 1)..i :
                             page[j].depth > page[Min(container)].depth}
    IN  CASE k = 1 -> Blocks(page, InOrder(is("div", "tweet-text")))
          [] k = 2 -> Blocks(page, InOrder(is("div", "content-tweet")))
          [] k = 3 -> Blocks(page, InOrder(is("p", "tweet")))
          [] k = 4 -> Blocks(page, InOrder(is("div", "t-main")))
          [] k = 5 -> IF container = {} THEN <<>>
                      ELSE Blocks(page,
                                  InOrder({i \in inside : page[i].tag = "p"}))

\* C4: the extracted blocks are exactly the blocks of the first of the five
\* sources that has any, in document order, and nothing of another source.
C4_FirstSourceWins ==
    Extracted =>
        LET yielding == {k \in 1..5 : Source(call.page, k) # <<>>}
        IN  ret = IF yielding = {} THEN <<>>
                  ELSE Source(call.page, Min(yielding))

\* the first selector matched only an element that failed the length
\* filter, the second selector gave the blocks, and a later source has
\* blocks too
C4_Witness ==
    /\ Extracted
    /\ \E i \in 1..Len(call.page) :
          call.page[i].tag = "div" /\ "tweet-text" \in call.page[i].class
    /\ Source(call.page, 1) = <<>>
    /\ Source(call.page, 2) # <<>>
    /\ Source(call.page, 4) # <<>>
    /\ ret = Source(call.page, 2)

=============================================================================
